---- MODULE Spec2Model ----
(***************************************************************************)
(* Model of elastic_apm_profiler/src/profiler/env.rs: typed reads of       *)
(* environment variables, the two process-wide Lazy<bool> flags, the       *)
(* logging bootstrap (initialize_logging) with its log directory fallback  *)
(* and rolling file sink, and the integrations manifest loader.            *)
(*                                                                         *)
(* Strings whose characters matter (values that are lower-cased, split or  *)
(* parsed) are sequences of one-character strings; paths are sequences of  *)
(* path components.                                                        *)
(***************************************************************************)
EXTENDS Integers, Sequences, FiniteSets, TLC

VARIABLES
    env,                    \* the process environment: key -> value
    target_os,              \* cfg(target_os): "windows" or "other"
    target_pointer_width,   \* cfg!(target_pointer_width): 64 or 32
    fs,                     \* log directories: path -> state of that path
    files,                  \* manifest files: path -> contents
    logged,                 \* records handed to log::info! / log::warn!
    ret,                    \* what the last completed call returned
    cell,                   \* the two Lazy<bool> statics
    seen,                   \* per thread and flag: the values a deref returned
    resolutions,            \* per flag: how often its initializer ran
    mutations,              \* number of environment / file mutations so far
    il_pc,                  \* initialize_logging: position in the function
    targets,                \* initialize_logging: local `targets`
    level,                  \* initialize_logging: local `level`
    log_dir,                \* initialize_logging: local `log_dir`
    valid_log_dir,          \* initialize_logging: local `valid_log_dir`
    appenders,              \* initialize_logging: appenders of root_builder
    create_calls,           \* paths handed to std::fs::create_dir_all, in order
    sink_dir,               \* directory the file appender was built on
    handle,                 \* the installed logger (its appenders and level)
    active_len,             \* rolling file sink: bytes in the active log file
    backups,                \* rolling file sink: backup files, index 0 first
    rolls,                  \* rolling file sink: number of rotations so far
    dropped,                \* rolling file sink: backup deleted by last roll
    li_pc,                  \* load_integrations: position in the function
    li_path,                \* load_integrations: local `path`
    li_file,                \* load_integrations: local `file` (opened)
    li_steps,               \* load_integrations: steps executed by this call
    opened,                 \* paths handed to File::open, in order
    history                 \* completed load_integrations calls

vars == << env, target_os, target_pointer_width, fs, files, logged, ret, cell,
           seen, resolutions, mutations, il_pc, targets, level, log_dir,
           valid_log_dir, appenders, create_calls, sink_dir, handle,
           active_len, backups, rolls, dropped, li_pc, li_path, li_file,
           li_steps, opened, history >>

----------------------------------------------------------------------------
(* Bounds of the model                                                     *)

NumThreads == 2
MaxMutations == 2
MaxRolls == 12
MaxCalls == 2

----------------------------------------------------------------------------
(* Environment variable names                                              *)

ELASTIC_APM_PROFILER_INTEGRATIONS == "ELASTIC_APM_PROFILER_INTEGRATIONS"
ELASTIC_APM_PROFILER_LOG_TARGETS_ENV_VAR == "ELASTIC_APM_PROFILER_LOG_TARGETS"
ELASTIC_APM_PROFILER_LOG_ENV_VAR == "ELASTIC_APM_PROFILER_LOG"
ELASTIC_APM_PROFILER_LOG_DIR_ENV_VAR == "ELASTIC_APM_PROFILER_LOG_DIR"
ELASTIC_APM_PROFILER_LOG_IL_ENV_VAR == "ELASTIC_APM_PROFILER_LOG_IL"
ELASTIC_APM_PROFILER_CALLTARGET_ENABLED_ENV_VAR == "ELASTIC_APM_PROFILER_CALLTARGET_ENABLED"
ELASTIC_APM_PROFILER_ENABLE_INLINING == "ELASTIC_APM_PROFILER_ENABLE_INLINING"
ELASTIC_APM_PROFILER_DISABLE_OPTIMIZATIONS == "ELASTIC_APM_PROFILER_DISABLE_OPTIMIZATIONS"

E_FAIL == "E_FAIL"

EnvKeys ==
    { ELASTIC_APM_PROFILER_INTEGRATIONS,
      ELASTIC_APM_PROFILER_LOG_TARGETS_ENV_VAR,
      ELASTIC_APM_PROFILER_LOG_ENV_VAR,
      ELASTIC_APM_PROFILER_LOG_DIR_ENV_VAR,
      ELASTIC_APM_PROFILER_LOG_IL_ENV_VAR,
      ELASTIC_APM_PROFILER_CALLTARGET_ENABLED_ENV_VAR,
      ELASTIC_APM_PROFILER_ENABLE_INLINING,
      ELASTIC_APM_PROFILER_DISABLE_OPTIMIZATIONS,
      "CORECLR_PROFILER_PATH_64", "CORECLR_PROFILER_PATH_32",
      "CORECLR_PROFILER_PATH",
      "COR_PROFILER_PATH_64", "COR_PROFILER_PATH_32", "COR_PROFILER_PATH",
      "PROGRAMDATA" }

(* std::env::var(key): Ok(value), Err(NotPresent) or Err(NotUnicode).      *)
Present(v) == [kind |-> "Ok", val |-> v]
NotPresent == [kind |-> "NotPresent", val |-> << >>]
NotUnicode == [kind |-> "NotUnicode", val |-> << >>]

std_env_var(key) == env[key]

EmptyEnv == [k \in EnvKeys |-> NotPresent]

----------------------------------------------------------------------------
(* Strings                                                                 *)

UpperChars == << "A","B","C","D","E","F","G","H","I","J","K","L","M",
                 "N","O","P","Q","R","S","T","U","V","W","X","Y","Z" >>
LowerChars == << "a","b","c","d","e","f","g","h","i","j","k","l","m",
                 "n","o","p","q","r","s","t","u","v","w","x","y","z" >>

to_lowercase_char(c) ==
    IF \E i \in 1..Len(UpperChars) : UpperChars[i] = c
    THEN LowerChars[CHOOSE i \in 1..Len(UpperChars) : UpperChars[i] = c]
    ELSE c

(* str::to_lowercase on the characters the model uses                      *)
to_lowercase(s) == [i \in 1..Len(s) |-> to_lowercase_char(s[i])]

S_true == << "t","r","u","e" >>
S_false == << "f","a","l","s","e" >>
S_1 == << "1" >>
S_0 == << "0" >>
S_file == << "f","i","l","e" >>
S_stdout == << "s","t","d","o","u","t" >>

----------------------------------------------------------------------------
(* read_bool_env_var and its callers                                       *)

LogRecord(lvl, what, key) == [level |-> lvl, what |-> what, key |-> key]

read_bool_env_var_nolower(key, default) ==
    LET r == std_env_var(key) IN
    IF r.kind = "Ok"
    THEN IF r.val = S_true \/ r.val = S_1 THEN TRUE
         ELSE IF r.val = S_false \/ r.val = S_0 THEN FALSE
         ELSE default
    ELSE default

read_bool_env_var(key, default) ==
    LET r == std_env_var(key) IN
    IF r.kind = "Ok"
    THEN LET enabled == to_lowercase(r.val) IN
         IF enabled = S_true \/ enabled = S_1 THEN TRUE
         ELSE IF enabled = S_false \/ enabled = S_0 THEN FALSE
         ELSE default
    ELSE default

(* the log::info! entry read_bool_env_var emits on its two default paths   *)
read_bool_env_var_log(key) ==
    LET r == std_env_var(key) IN
    IF r.kind = "Ok"
    THEN IF to_lowercase(r.val) \in {S_true, S_1, S_false, S_0}
         THEN {}
         ELSE {LogRecord("info", "Unknown value", key)}
    ELSE {LogRecord("info", "Problem reading", key)}

BoolRet(op, key, default) ==
    [op |-> op, key |-> key, dflt |-> default, ok |-> TRUE,
     val |-> read_bool_env_var(key, default)]

NoRet == [op |-> "none", key |-> "", dflt |-> FALSE, ok |-> TRUE, val |-> FALSE]

----------------------------------------------------------------------------
(* Variable groups                                                         *)

platformVars == << target_os, target_pointer_width >>
lazyVars == << cell, seen, resolutions >>
ilVars == << il_pc, targets, level, log_dir, valid_log_dir, appenders,
             create_calls, sink_dir, handle >>
rollVars == << active_len, backups, rolls, dropped >>
liVars == << li_pc, li_path, li_file, li_steps, opened, history >>

Threads == 1..NumThreads

(* The two statics; each is named like the variable it is resolved from.   *)
ELASTIC_APM_PROFILER_LOG_IL == "ELASTIC_APM_PROFILER_LOG_IL"
ELASTIC_APM_PROFILER_CALLTARGET_ENABLED == "ELASTIC_APM_PROFILER_CALLTARGET_ENABLED"
Flags == { ELASTIC_APM_PROFILER_LOG_IL, ELASTIC_APM_PROFILER_CALLTARGET_ENABLED }

FlagEnvVar(f) ==
    IF f = ELASTIC_APM_PROFILER_LOG_IL
    THEN ELASTIC_APM_PROFILER_LOG_IL_ENV_VAR
    ELSE ELASTIC_APM_PROFILER_CALLTARGET_ENABLED_ENV_VAR

FlagDefault(f) == f # ELASTIC_APM_PROFILER_LOG_IL

BoolKeys ==
    { ELASTIC_APM_PROFILER_LOG_IL_ENV_VAR,
      ELASTIC_APM_PROFILER_CALLTARGET_ENABLED_ENV_VAR,
      ELASTIC_APM_PROFILER_ENABLE_INLINING,
      ELASTIC_APM_PROFILER_DISABLE_OPTIMIZATIONS }

(* the variables read on every call, not through a static                 *)
DirectBoolKeys ==
    { ELASTIC_APM_PROFILER_ENABLE_INLINING,
      ELASTIC_APM_PROFILER_DISABLE_OPTIMIZATIONS }

(* Values the boolean variables are given                                  *)
BoolInputs ==
    { NotPresent, NotUnicode,
      Present(S_true), Present(<< "T","R","U","E" >>),
      Present(<< "T","r","u","e" >>), Present(S_1),
      Present(S_false), Present(<< "F","A","L","S","E" >>), Present(S_0),
      Present(<< "y","e","s" >>), Present(<< >>),
      Present(<< "1","0" >>), Present(<< " ","t","r","u","e" >>) }

LazyInputs ==
    { NotPresent, Present(S_true), Present(<< "F","A","L","S","E" >>),
      Present(S_0), Present(S_1), Present(<< "b","o","g","u","s" >>) }

UninitCell == [state |-> "uninit", owner |-> 0, value |-> FALSE]

(* What every specification starts from outside its own component          *)
IdlePlatform == target_os = "other" /\ target_pointer_width = 64
IdleLazy ==
    /\ cell = [f \in Flags |-> UninitCell]
    /\ seen = [t \in Threads |-> [f \in Flags |-> {}]]
    /\ resolutions = [f \in Flags |-> 0]
IdleLogging ==
    /\ il_pc = "start"
    /\ targets = {}
    /\ level = "Warn"
    /\ log_dir = << >>
    /\ valid_log_dir = TRUE
    /\ appenders = {}
    /\ create_calls = << >>
    /\ sink_dir = << >>
    /\ handle = [installed |-> FALSE, appenders |-> {}, level |-> "Off"]
IdleRolling ==
    /\ active_len = 0
    /\ backups = << >>
    /\ rolls = 0
    /\ dropped = 0
IdleLoader ==
    /\ li_pc = "idle"
    /\ li_path = << >>
    /\ li_file = << >>
    /\ li_steps = << >>
    /\ opened = << >>
    /\ history = << >>

----------------------------------------------------------------------------
(* The host changes the environment (set_var / remove_var)                 *)

SetEnv(k, v) ==
    /\ mutations < MaxMutations
    /\ env[k] # v
    /\ env' = [env EXCEPT ![k] = v]
    /\ mutations' = mutations + 1
    /\ UNCHANGED << platformVars, fs, files, logged, ret, lazyVars, ilVars,
                    rollVars, liVars >>

----------------------------------------------------------------------------
(* Calls of the boolean readers                                            *)

Call_read_bool_env_var(key, default) ==
    /\ ret' = BoolRet("read_bool_env_var", key, default)
    /\ logged' = logged \cup read_bool_env_var_log(key)
    /\ UNCHANGED << env, platformVars, fs, files, lazyVars, mutations,
                    ilVars, rollVars, liVars >>

disable_optimizations ==
    /\ ret' = BoolRet("disable_optimizations",
                      ELASTIC_APM_PROFILER_DISABLE_OPTIMIZATIONS, FALSE)
    /\ logged' = logged
                 \cup read_bool_env_var_log(ELASTIC_APM_PROFILER_DISABLE_OPTIMIZATIONS)
    /\ UNCHANGED << env, platformVars, fs, files, lazyVars, mutations,
                    ilVars, rollVars, liVars >>

enable_inlining(default) ==
    /\ ret' = BoolRet("enable_inlining",
                      ELASTIC_APM_PROFILER_ENABLE_INLINING, default)
    /\ logged' = logged
                 \cup read_bool_env_var_log(ELASTIC_APM_PROFILER_ENABLE_INLINING)
    /\ UNCHANGED << env, platformVars, fs, files, lazyVars, mutations,
                    ilVars, rollVars, liVars >>

InitBool ==
    /\ env = EmptyEnv
    /\ IdlePlatform
    /\ fs = << >>
    /\ files = << >>
    /\ logged = {}
    /\ ret = NoRet
    /\ mutations = 0
    /\ IdleLazy /\ IdleLogging /\ IdleRolling /\ IdleLoader

NextBool ==
    \/ \E k \in DirectBoolKeys, v \in BoolInputs : SetEnv(k, v)
    \/ \E k \in BoolKeys, d \in BOOLEAN : Call_read_bool_env_var(k, d)
    \/ disable_optimizations
    \/ \E d \in BOOLEAN : enable_inlining(d)

SpecBool == InitBool /\ [][NextBool]_vars

----------------------------------------------------------------------------
(* The two Lazy<bool> statics: once_cell runs the initializer of a cell    *)
(* once, on the first thread that forces it; threads that force the cell   *)
(* meanwhile block until the value is stored.                              *)

Lazy_value_uncached(f) == read_bool_env_var(FlagEnvVar(f), FlagDefault(f))

(* the value a deref of an initialized static yields                       *)
Lazy_value(f) == cell[f].value

(* first access: thread t takes the cell and starts the initializer        *)
Lazy_force_begin(t, f) ==
    /\ cell[f].state = "uninit"
    /\ cell' = [cell EXCEPT ![f] = [state |-> "running", owner |-> t,
                                    value |-> FALSE]]
    /\ UNCHANGED << env, platformVars, fs, files, logged, ret, seen,
                    resolutions, mutations, ilVars, rollVars, liVars >>

(* the initializer reads the environment; the cell stores its result       *)
Lazy_force_init(t, f) ==
    /\ cell[f].state = "running"
    /\ cell[f].owner = t
    /\ LET v == read_bool_env_var(FlagEnvVar(f), FlagDefault(f)) IN
        /\ cell' = [cell EXCEPT ![f] = [state |-> "init", owner |-> t,
                                        value |-> v]]
        /\ seen' = [seen EXCEPT ![t][f] = @ \cup {v}]
    /\ resolutions' = [resolutions EXCEPT ![f] = @ + 1]
    /\ logged' = logged \cup read_bool_env_var_log(FlagEnvVar(f))
    /\ UNCHANGED << env, platformVars, fs, files, ret, mutations, ilVars,
                    rollVars, liVars >>

(* any later deref, by any thread                                          *)
Lazy_deref(t, f) ==
    /\ cell[f].state = "init"
    /\ seen' = [seen EXCEPT ![t][f] = @ \cup {Lazy_value(f)}]
    /\ UNCHANGED << env, platformVars, fs, files, logged, ret, cell,
                    resolutions, mutations, ilVars, rollVars, liVars >>

InitLazy ==
    /\ env \in { [EmptyEnv EXCEPT ![ELASTIC_APM_PROFILER_LOG_IL_ENV_VAR] = a,
                                  ![ELASTIC_APM_PROFILER_CALLTARGET_ENABLED_ENV_VAR] = b]
                 : a \in LazyInputs, b \in LazyInputs }
    /\ IdlePlatform
    /\ fs = << >>
    /\ files = << >>
    /\ logged = {}
    /\ ret = NoRet
    /\ mutations = 0
    /\ IdleLazy /\ IdleLogging /\ IdleRolling /\ IdleLoader

NextLazy ==
    \/ \E f \in Flags, v \in LazyInputs : SetEnv(FlagEnvVar(f), v)
    \/ \E t \in Threads, f \in Flags : Lazy_force_begin(t, f)
    \/ \E t \in Threads, f \in Flags : Lazy_force_init(t, f)
    \/ \E t \in Threads, f \in Flags : Lazy_deref(t, f)

SpecLazy == InitLazy /\ [][NextLazy]_vars

----------------------------------------------------------------------------
(* Log targets and log level                                               *)

Range(q) == { q[i] : i \in 1..Len(q) }

(* str::split(sep): the pieces between separators, empty pieces included   *)
RECURSIVE split(_, _)
split(s, sep) ==
    IF \E i \in 1..Len(s) : s[i] = sep
    THEN LET i == CHOOSE j \in 1..Len(s) :
                      s[j] = sep /\ \A k \in 1..(j - 1) : s[k] # sep
         IN << SubSeq(s, 1, i - 1) >> \o split(SubSeq(s, i + 1, Len(s)), sep)
    ELSE << s >>

read_log_targets_from_env_var_nodefault ==
    LET r == std_env_var(ELASTIC_APM_PROFILER_LOG_TARGETS_ENV_VAR) IN
    IF r.kind = "Ok"
    THEN { out \in { to_lowercase(tok) : tok \in Range(split(r.val, ";")) } :
              out = S_file \/ out = S_stdout }
    ELSE {}

read_log_targets_from_env_var ==
    LET r == std_env_var(ELASTIC_APM_PROFILER_LOG_TARGETS_ENV_VAR)
        set == IF r.kind = "Ok"
               THEN { out \in { to_lowercase(tok) :
                                   tok \in Range(split(r.val, ";")) } :
                         out = S_file \/ out = S_stdout }
               ELSE {}
    IN IF set = {} THEN {S_file} ELSE set

(* log::LevelFilter and its from_str, which ignores ASCII case             *)
LevelNames ==
    << << "O","F","F" >>, << "E","R","R","O","R" >>, << "W","A","R","N" >>,
       << "I","N","F","O" >>, << "D","E","B","U","G" >>,
       << "T","R","A","C","E" >> >>
LevelFilters == << "Off", "Error", "Warn", "Info", "Debug", "Trace" >>

read_log_level_from_env_var(default) ==
    LET r == std_env_var(ELASTIC_APM_PROFILER_LOG_ENV_VAR) IN
    IF r.kind = "Ok"
       /\ \E i \in 1..Len(LevelNames) :
             to_lowercase(LevelNames[i]) = to_lowercase(r.val)
    THEN LevelFilters[CHOOSE i \in 1..Len(LevelNames) :
                         to_lowercase(LevelNames[i]) = to_lowercase(r.val)]
    ELSE default

----------------------------------------------------------------------------
(* Log directories                                                         *)

(* cfg!(target_pointer_width = "64") picks the variable name               *)
WidthVar(prefix) ==
    IF target_pointer_width = 64
    THEN IF prefix = "CORECLR" THEN "CORECLR_PROFILER_PATH_64"
                               ELSE "COR_PROFILER_PATH_64"
    ELSE IF prefix = "CORECLR" THEN "CORECLR_PROFILER_PATH_32"
                               ELSE "COR_PROFILER_PATH_32"

get_profiler_dir ==
    IF std_env_var(WidthVar("CORECLR")).kind = "Ok"
    THEN std_env_var(WidthVar("CORECLR")).val
    ELSE IF std_env_var("CORECLR_PROFILER_PATH").kind = "Ok"
    THEN std_env_var("CORECLR_PROFILER_PATH").val
    ELSE IF std_env_var(WidthVar("COR")).kind = "Ok"
    THEN std_env_var(WidthVar("COR")).val
    ELSE IF std_env_var("COR_PROFILER_PATH").kind = "Ok"
    THEN std_env_var("COR_PROFILER_PATH").val
    ELSE << >>

get_default_log_dir ==
    IF target_os = "windows"
    THEN IF std_env_var("PROGRAMDATA").kind = "Ok"
         THEN std_env_var("PROGRAMDATA").val
                  \o << "elastic", "apm-agent-dotnet", "logs" >>
         ELSE get_profiler_dir \o << "logs" >>
    ELSE << "/", "var", "log", "elastic", "apm-agent-dotnet" >>

get_log_dir ==
    IF std_env_var(ELASTIC_APM_PROFILER_LOG_DIR_ENV_VAR).kind = "Ok"
    THEN std_env_var(ELASTIC_APM_PROFILER_LOG_DIR_ENV_VAR).val
    ELSE get_default_log_dir

(* State of a path of the file system:                                     *)
(*   "dir"          a directory in which files can be created              *)
(*   "readonly_dir" a directory in which no file can be created            *)
(*   "file"         a regular file                                         *)
(*   "missing"      nothing there, and create_dir_all would succeed        *)
(*   "uncreatable"  nothing there, and create_dir_all fails                *)
FsStates == { "dir", "readonly_dir", "file", "missing", "uncreatable" }

exists(p) == fs[p] \in { "dir", "readonly_dir", "file" }
is_dir(p) == fs[p] \in { "dir", "readonly_dir" }

(* std::fs::create_dir_all(p)                                              *)
create_dir_all_ok(p) == fs[p] \in { "missing", "dir", "readonly_dir" }
create_dir_all_fs(p) ==
    IF fs[p] = "missing" THEN [fs EXCEPT ![p] = "dir"] ELSE fs

(* RollingFileAppender::build creates the parent directory and opens the   *)
(* log file at once; it is Err when either fails.                          *)
file_appender_build_ok(dir) == fs[dir] \in { "missing", "dir" }

----------------------------------------------------------------------------
(* initialize_logging, one action per block of the function                *)

(* lines 222-226: targets and level                                        *)
IL_read_config ==
    /\ il_pc = "start"
    /\ targets' = read_log_targets_from_env_var
    /\ level' = read_log_level_from_env_var("Warn")
    /\ il_pc' = "stdout"
    /\ UNCHANGED << env, platformVars, fs, files, logged, ret, lazyVars,
                    mutations, log_dir, valid_log_dir, appenders,
                    create_calls, sink_dir, handle, rollVars, liVars >>

(* lines 228-236: the console appender                                     *)
IL_stdout ==
    /\ il_pc = "stdout"
    /\ appenders' = IF S_stdout \in targets
                    THEN appenders \cup {"stdout"} ELSE appenders
    /\ il_pc' = "file"
    /\ UNCHANGED << env, platformVars, fs, files, logged, ret, lazyVars,
                    mutations, targets, level, log_dir, valid_log_dir,
                    create_calls, sink_dir, handle, rollVars, liVars >>

(* lines 238-244: resolve the directory; a path that exists and is not a   *)
(* directory is replaced by the default                                    *)
IL_file_resolve ==
    /\ il_pc = "file"
    /\ IF S_file \in targets
       THEN /\ log_dir' = IF exists(get_log_dir) /\ ~is_dir(get_log_dir)
                          THEN get_default_log_dir ELSE get_log_dir
            /\ valid_log_dir' = TRUE
            /\ il_pc' = "create"
       ELSE /\ il_pc' = "install"
            /\ UNCHANGED << log_dir, valid_log_dir >>
    /\ UNCHANGED << env, platformVars, fs, files, logged, ret, lazyVars,
                    mutations, targets, level, appenders, create_calls,
                    sink_dir, handle, rollVars, liVars >>

(* lines 246-252: create the directory when it does not exist; when that   *)
(* fails and the directory is not the default, switch to the default       *)
IL_create_dir ==
    /\ il_pc = "create"
    /\ IF ~exists(log_dir)
       THEN /\ create_calls' = Append(create_calls, log_dir)
            /\ fs' = create_dir_all_fs(log_dir)
            /\ IF create_dir_all_ok(log_dir)
               THEN il_pc' = "sink" /\ log_dir' = log_dir
               ELSE IF log_dir # get_default_log_dir
                    THEN il_pc' = "fallback" /\ log_dir' = get_default_log_dir
                    ELSE il_pc' = "sink" /\ log_dir' = log_dir
       ELSE /\ il_pc' = "sink"
            /\ UNCHANGED << create_calls, fs, log_dir >>
    /\ UNCHANGED << env, platformVars, files, logged, ret, lazyVars,
                    mutations, targets, level, valid_log_dir, appenders,
                    sink_dir, handle, rollVars, liVars >>

(* lines 253-255: create the default directory                             *)
IL_create_default_dir ==
    /\ il_pc = "fallback"
    /\ create_calls' = Append(create_calls, log_dir)
    /\ fs' = create_dir_all_fs(log_dir)
    /\ valid_log_dir' = create_dir_all_ok(log_dir)
    /\ il_pc' = "sink"
    /\ UNCHANGED << env, platformVars, files, logged, ret, lazyVars,
                    mutations, targets, level, log_dir, appenders,
                    sink_dir, handle, rollVars, liVars >>

(* lines 260-291: the rolling file appender; build(..).unwrap() panics     *)
(* when the appender cannot be built                                       *)
IL_file_sink ==
    /\ il_pc = "sink"
    /\ IF valid_log_dir
       THEN IF file_appender_build_ok(log_dir)
            THEN /\ fs' = create_dir_all_fs(log_dir)
                 /\ appenders' = appenders \cup {"file"}
                 /\ sink_dir' = log_dir
                 /\ il_pc' = "install"
            ELSE /\ il_pc' = "panicked"
                 /\ UNCHANGED << fs, appenders, sink_dir >>
       ELSE /\ il_pc' = "install"
            /\ UNCHANGED << fs, appenders, sink_dir >>
    /\ UNCHANGED << env, platformVars, files, logged, ret, lazyVars,
                    mutations, targets, level, log_dir, valid_log_dir,
                    create_calls, handle, rollVars, liVars >>

(* lines 294-296: install the configuration and return the handle          *)
IL_install ==
    /\ il_pc = "install"
    /\ handle' = [installed |-> TRUE, appenders |-> appenders,
                  level |-> level]
    /\ ret' = [op |-> "initialize_logging", key |-> "", dflt |-> FALSE,
               ok |-> TRUE, val |-> TRUE]
    /\ il_pc' = "done"
    /\ UNCHANGED << env, platformVars, fs, files, logged, lazyVars,
                    mutations, targets, level, log_dir, valid_log_dir,
                    appenders, create_calls, sink_dir, rollVars, liVars >>

(* Inputs of the logging bootstrap                                         *)
TargetInputs ==
    { NotPresent, NotUnicode, Present(<< >>),
      Present(S_file), Present(S_stdout),
      Present(S_file \o << ";" >> \o S_stdout),
      Present(<< "F","I","L","E",";","S","t","d","O","u","t" >>),
      Present(<< "b","o","g","u","s" >>),
      Present(S_stdout \o << ";","b","o","g","u","s" >>),
      Present(<< ";" >>),
      Present(<< " " >> \o S_file),
      Present(S_file \o << ";" >> \o S_file),
      Present(S_stdout \o << ";",";","F","I","L","E" >>) }

LevelInputs ==
    { NotPresent, Present(<< "d","e","b","u","g" >>),
      Present(<< "b","o","g","u","s" >>) }

OverridePath == << "/", "opt", "logs" >>
ProgramDataPath == << "C:", "ProgramData" >>
ProfilerPath == << "C:", "profiler" >>

LogDirInputs ==
    { NotPresent, NotUnicode, Present(OverridePath),
      Present(<< "/", "var", "log", "elastic", "apm-agent-dotnet" >>) }

(* build targets and the variables the default directory is derived from   *)
PlatformInputs ==
    { [os |-> "other", width |-> 64, vars |-> << >>],
      [os |-> "other", width |-> 32, vars |-> << >>],
      [os |-> "windows", width |-> 64,
       vars |-> << << "PROGRAMDATA", ProgramDataPath >> >>],
      [os |-> "windows", width |-> 64,
       vars |-> << << "CORECLR_PROFILER_PATH_64", ProfilerPath >> >>],
      [os |-> "windows", width |-> 32,
       vars |-> << << "COR_PROFILER_PATH", ProfilerPath >>,
                   << "CORECLR_PROFILER_PATH_64", ProgramDataPath >> >>],
      [os |-> "windows", width |-> 32, vars |-> << >>] }

PlatformEnv(p) ==
    [k \in EnvKeys |->
        IF \E i \in 1..Len(p.vars) : p.vars[i][1] = k
        THEN Present(p.vars[CHOOSE i \in 1..Len(p.vars) : p.vars[i][1] = k][2])
        ELSE NotPresent]

InitLog ==
    /\ \E p \in PlatformInputs, t \in TargetInputs, l \in LevelInputs,
          d \in LogDirInputs :
          /\ target_os = p.os
          /\ target_pointer_width = p.width
          /\ env = [PlatformEnv(p) EXCEPT
                       ![ELASTIC_APM_PROFILER_LOG_TARGETS_ENV_VAR] = t,
                       ![ELASTIC_APM_PROFILER_LOG_ENV_VAR] = l,
                       ![ELASTIC_APM_PROFILER_LOG_DIR_ENV_VAR] = d]
    /\ fs \in [ {get_log_dir, get_default_log_dir} -> FsStates ]
    /\ files = << >>
    /\ logged = {}
    /\ ret = NoRet
    /\ mutations = 0
    /\ IdleLazy /\ IdleLogging /\ IdleRolling /\ IdleLoader

NextLog ==
    \/ IL_read_config
    \/ IL_stdout
    \/ IL_file_resolve
    \/ IL_create_dir
    \/ IL_create_default_dir
    \/ IL_file_sink
    \/ IL_install

SpecLog == InitLog /\ [][NextLog]_vars

----------------------------------------------------------------------------
(* The rolling file sink built at lines 275-286: SizeTrigger(5 MiB) and    *)
(* FixedWindowRoller(pattern, 10).  A log file is identified by the order  *)
(* in which it was created; backups[i] is the file at index i - 1 of the   *)
(* pattern elastic_apm_profiler_<process_name>_<pid>_{}.log.               *)

SizeTrigger_limit == 5 * 1024 * 1024
FixedWindowRoller_count == 10

(* sizes of the encoded records written                                    *)
RecordSizes == { 1024 * 1024, 1536 * 1024, 4 * 1024 * 1024 }

SizeTrigger_trigger(len) == len > SizeTrigger_limit

Min(a, b) == IF a < b THEN a ELSE b

FixedWindowRoller_roll_unbounded(bk, file) == << file >> \o bk

(* every backup moves up one index, the one at the last index is           *)
(* overwritten, and the active file becomes index 0                        *)
FixedWindowRoller_roll(bk, file) ==
    << file >> \o SubSeq(bk, 1, Min(Len(bk), FixedWindowRoller_count - 1))

(* one record is appended to the active file, then the policy is asked     *)
log_write(n) ==
    /\ handle.installed
    /\ "file" \in handle.appenders
    /\ rolls < MaxRolls
    /\ ret' = [op |-> "log", key |-> "", dflt |-> FALSE, ok |-> TRUE,
               val |-> n]
    /\ IF SizeTrigger_trigger(active_len + n)
       THEN /\ backups' = FixedWindowRoller_roll(backups, rolls + 1)
            /\ dropped' = IF Len(backups) >= FixedWindowRoller_count
                          THEN backups[Len(backups)] ELSE 0
            /\ rolls' = rolls + 1
            /\ active_len' = 0
       ELSE /\ active_len' = active_len + n
            /\ UNCHANGED << backups, rolls, dropped >>
    /\ UNCHANGED << env, platformVars, fs, files, logged, lazyVars,
                    mutations, ilVars, liVars >>

(* initialize_logging has returned with the file sink installed            *)
InitRoll ==
    /\ env = EmptyEnv
    /\ IdlePlatform
    /\ fs = [ d \in {get_default_log_dir} |-> "dir" ]
    /\ files = << >>
    /\ logged = {}
    /\ ret = [op |-> "initialize_logging", key |-> "", dflt |-> FALSE,
              ok |-> TRUE, val |-> TRUE]
    /\ mutations = 0
    /\ IdleLazy /\ IdleRolling /\ IdleLoader
    /\ il_pc = "done"
    /\ targets = {S_file}
    /\ level = "Warn"
    /\ log_dir = get_default_log_dir
    /\ valid_log_dir = TRUE
    /\ appenders = {"file"}
    /\ create_calls = << >>
    /\ sink_dir = get_default_log_dir
    /\ handle = [installed |-> TRUE, appenders |-> {"file"}, level |-> "Warn"]

NextRoll == \E n \in RecordSizes : log_write(n)

SpecRoll == InitRoll /\ [][NextRoll]_vars

----------------------------------------------------------------------------
(* The integrations manifest.  A manifest file is a sequence of items; an  *)
(* item << "name", x >> deserializes into the Integration named x, any     *)
(* other item makes the parser fail.                                       *)

ItemA == << "name", "A" >>
ItemB == << "name", "B" >>
ItemBad == << "nam", "A" >>

item_ok(item) == Len(item) = 2 /\ item[1] = "name"
Integration(item) == [name |-> item[2]]

RECURSIVE dedup(_)
dedup(q) ==
    IF q = << >> THEN << >>
    ELSE IF \E i \in 1..(Len(q) - 1) : q[i] = q[Len(q)]
    THEN dedup(SubSeq(q, 1, Len(q) - 1))
    ELSE Append(dedup(SubSeq(q, 1, Len(q) - 1)), q[Len(q)])

serde_yaml_from_reader_dedup(content) ==
    IF \A i \in 1..Len(content) : item_ok(content[i])
    THEN [ok |-> TRUE,
          val |-> dedup([i \in 1..Len(content) |-> Integration(content[i])])]
    ELSE [ok |-> FALSE, val |-> E_FAIL]

(* serde_yaml::from_reader(reader).map_err(.. E_FAIL)                       *)
serde_yaml_from_reader(content) ==
    IF \A i \in 1..Len(content) : item_ok(content[i])
    THEN [ok |-> TRUE,
          val |-> [i \in 1..Len(content) |-> Integration(content[i])]]
    ELSE [ok |-> FALSE, val |-> E_FAIL]

(* File::open(path)                                                        *)
File_open_ok(path) == path \in DOMAIN files /\ files[path].exists

LoadRet(r) ==
    [op |-> "load_integrations", key |-> "", dflt |-> FALSE,
     ok |-> r.ok, val |-> r.val]

(* the call returns r: the caller has it, and the call is over             *)
LI_return(r, steps) ==
    /\ ret' = LoadRet(r)
    /\ history' = Append(history, [epoch |-> mutations, ok |-> r.ok,
                                   val |-> r.val, steps |-> steps])
    /\ li_pc' = "idle"

LI_read_env_default ==
    /\ li_pc = "idle"
    /\ Len(history) < MaxCalls
    /\ li_steps' = << "env" >>
    /\ li_path' = std_env_var(ELASTIC_APM_PROFILER_INTEGRATIONS).val
    /\ li_pc' = "open"
    /\ UNCHANGED << ret, history, logged >>
    /\ UNCHANGED << env, platformVars, fs, files, lazyVars, mutations,
                    ilVars, rollVars, li_file, opened >>

(* lines 302-309: the path, or E_FAIL                                      *)
LI_read_env ==
    /\ li_pc = "idle"
    /\ Len(history) < MaxCalls
    /\ li_steps' = << "env" >>
    /\ IF std_env_var(ELASTIC_APM_PROFILER_INTEGRATIONS).kind = "Ok"
       THEN /\ li_path' = std_env_var(ELASTIC_APM_PROFILER_INTEGRATIONS).val
            /\ li_pc' = "open"
            /\ UNCHANGED << ret, history, logged >>
       ELSE /\ logged' = logged \cup
                  {LogRecord("warn", "Problem reading environment variable",
                             ELASTIC_APM_PROFILER_INTEGRATIONS)}
            /\ LI_return([ok |-> FALSE, val |-> E_FAIL], << "env" >>)
            /\ UNCHANGED li_path
    /\ UNCHANGED << env, platformVars, fs, files, lazyVars, mutations,
                    ilVars, rollVars, li_file, opened >>

LI_open_lenient ==
    /\ li_pc = "open"
    /\ li_steps' = Append(li_steps, "open")
    /\ opened' = Append(opened, li_path)
    /\ IF File_open_ok(li_path)
       THEN /\ li_file' = li_path
            /\ li_pc' = "parse"
            /\ UNCHANGED << ret, history, logged >>
       ELSE /\ LI_return([ok |-> TRUE, val |-> << >>],
                         Append(li_steps, "open"))
            /\ UNCHANGED << li_file, logged >>
    /\ UNCHANGED << env, platformVars, fs, files, lazyVars, mutations,
                    ilVars, rollVars, li_path >>

(* lines 311-318: the opened file, or E_FAIL                               *)
LI_open ==
    /\ li_pc = "open"
    /\ li_steps' = Append(li_steps, "open")
    /\ opened' = Append(opened, li_path)
    /\ IF File_open_ok(li_path)
       THEN /\ li_file' = li_path
            /\ li_pc' = "parse"
            /\ UNCHANGED << ret, history, logged >>
       ELSE /\ logged' = logged \cup
                  {LogRecord("warn", "Problem reading integrations file",
                             ELASTIC_APM_PROFILER_INTEGRATIONS)}
            /\ LI_return([ok |-> FALSE, val |-> E_FAIL],
                         Append(li_steps, "open"))
            /\ UNCHANGED li_file
    /\ UNCHANGED << env, platformVars, fs, files, lazyVars, mutations,
                    ilVars, rollVars, li_path >>

(* lines 320-330: the parsed records, or E_FAIL                            *)
LI_parse ==
    /\ li_pc = "parse"
    /\ li_steps' = Append(li_steps, "parse")
    /\ LET r == serde_yaml_from_reader(files[li_file].content) IN
        /\ logged' = IF r.ok THEN logged
                     ELSE logged \cup
                          {LogRecord("warn", "Problem reading integrations file",
                                     ELASTIC_APM_PROFILER_INTEGRATIONS)}
        /\ LI_return(r, Append(li_steps, "parse"))
    /\ UNCHANGED << env, platformVars, fs, files, lazyVars, mutations,
                    ilVars, rollVars, li_path, li_file, opened >>

(* get_native_profiler_file: a constant on Windows; elsewhere the value    *)
(* of a profiler path variable, or E_FAIL                                  *)
get_native_profiler_file_result ==
    IF target_os = "windows"
    THEN [ok |-> TRUE, val |-> << "elastic_apm_profiler.dll" >>]
    ELSE IF std_env_var(WidthVar("CORECLR")).kind = "Ok"
    THEN [ok |-> TRUE, val |-> std_env_var(WidthVar("CORECLR")).val]
    ELSE IF std_env_var("CORECLR_PROFILER_PATH").kind = "Ok"
    THEN [ok |-> TRUE, val |-> std_env_var("CORECLR_PROFILER_PATH").val]
    ELSE [ok |-> FALSE, val |-> E_FAIL]

get_native_profiler_file ==
    /\ li_pc = "idle"
    /\ ret' = [op |-> "get_native_profiler_file", key |-> "",
               dflt |-> FALSE, ok |-> get_native_profiler_file_result.ok,
               val |-> get_native_profiler_file_result.val]
    /\ logged' = IF target_os # "windows" /\ ~get_native_profiler_file_result.ok
                 THEN logged \cup
                      {LogRecord("warn", "problem getting env var",
                                 "CORECLR_PROFILER_PATH")}
                 ELSE logged
    /\ UNCHANGED << env, platformVars, fs, files, lazyVars, mutations,
                    ilVars, rollVars, liVars >>

Call_read_log_level_from_env_var(default) ==
    /\ li_pc = "idle"
    /\ ret' = [op |-> "read_log_level_from_env_var", key |-> "",
               dflt |-> FALSE, ok |-> TRUE,
               val |-> read_log_level_from_env_var(default)]
    /\ UNCHANGED << env, platformVars, fs, files, logged, lazyVars,
                    mutations, ilVars, rollVars, liVars >>

(* the manifest file at path p is written, replaced or removed             *)
WriteFile(p, f) ==
    /\ li_pc = "idle"
    /\ mutations < MaxMutations
    /\ files[p] # f
    /\ files' = [files EXCEPT ![p] = f]
    /\ mutations' = mutations + 1
    /\ UNCHANGED << env, platformVars, fs, logged, ret, lazyVars, ilVars,
                    rollVars, liVars >>

PathA == << "/", "opt", "integrations.yml" >>
PathB == << "/", "tmp", "other.yml" >>

NoFile == [exists |-> FALSE, content |-> << >>]
FileOf(c) == [exists |-> TRUE, content |-> c]

FileInputs ==
    { NoFile, FileOf(<< >>), FileOf(<< ItemA, ItemB >>),
      FileOf(<< ItemB, ItemA, ItemB >>), FileOf(<< ItemA, ItemBad >>) }

IntegrationsInputs ==
    { NotPresent, NotUnicode, Present(PathA), Present(PathB) }

NativeInputs ==
    { [os |-> "other", width |-> 64, vars |-> << >>],
      [os |-> "other", width |-> 64,
       vars |-> << << "CORECLR_PROFILER_PATH", ProfilerPath >> >>],
      [os |-> "other", width |-> 32,
       vars |-> << << "CORECLR_PROFILER_PATH_32", ProfilerPath >> >>],
      [os |-> "windows", width |-> 64, vars |-> << >>] }

InitLoad ==
    /\ \E p \in NativeInputs, v \in IntegrationsInputs :
          /\ target_os = p.os
          /\ target_pointer_width = p.width
          /\ env = [PlatformEnv(p) EXCEPT
                       ![ELASTIC_APM_PROFILER_INTEGRATIONS] = v]
    /\ \E a \in FileInputs :
          files = [ p \in {PathA, PathB} |->
                      IF p = PathA THEN a ELSE FileOf(<< ItemB >>) ]
    /\ fs = << >>
    /\ logged = {}
    /\ ret = NoRet
    /\ mutations = 0
    /\ IdleLazy /\ IdleLogging /\ IdleRolling /\ IdleLoader

NextLoad ==
    \/ LI_read_env
    \/ LI_open
    \/ LI_parse
    \/ get_native_profiler_file
    \/ Call_read_log_level_from_env_var("Warn")
    \/ li_pc = "idle" /\ disable_optimizations
    \/ li_pc = "idle"
       /\ \E v \in IntegrationsInputs :
             SetEnv(ELASTIC_APM_PROFILER_INTEGRATIONS, v)
    \/ \E f \in FileInputs : WriteFile(PathA, f)

SpecLoad == InitLoad /\ [][NextLoad]_vars

----------------------------------------------------------------------------
(* C1: read_bool_env_var(key, d) is true for a value that is "true" or "1" *)
(* ignoring case, false for "false" or "0" ignoring case, and d when the   *)
(* variable is unset, unreadable or holds anything else; it always returns *)
(* a boolean and the call leaves the environment as it was.                *)

SameIgnoringCase(s, lit) ==
    /\ Len(s) = Len(lit)
    /\ \A i \in 1..Len(s) :
          \/ s[i] = lit[i]
          \/ \E j \in 1..Len(UpperChars) :
                s[i] = UpperChars[j] /\ lit[i] = LowerChars[j]

IsBoolCall(r) == r.op \in {"read_bool_env_var", "disable_optimizations",
                            "enable_inlining"}

ExpectedBool(v, d) ==
    IF v.kind # "Ok" THEN d
    ELSE IF SameIgnoringCase(v.val, S_true) \/ v.val = S_1 THEN TRUE
    ELSE IF SameIgnoringCase(v.val, S_false) \/ v.val = S_0 THEN FALSE
    ELSE d

C1_Result ==
    IsBoolCall(ret) =>
        /\ ret.ok
        /\ ret.val \in BOOLEAN
        /\ ret.val = ExpectedBool(env[ret.key], ret.dflt)

C1_ReadBool ==
    [][(ret' # ret \/ logged' # logged) => (env' = env /\ C1_Result')]_vars

C1_Witness ==
    /\ ret.op = "read_bool_env_var"
    /\ ret.dflt = FALSE
    /\ env[ret.key] = Present(<< "T","R","U","E" >>)
    /\ ret.val = TRUE

(* C2: each cached flag is resolved at most once, and every deref by every *)
(* thread yields the value that resolution computed, whatever happens to   *)
(* the environment variable afterwards.                                    *)
C2_ResolvedOnce ==
    \A f \in Flags :
        /\ resolutions[f] <= 1
        /\ (resolutions[f] = 1) = (cell[f].state = "init")
        /\ \A t \in Threads :
              seen[t][f] \subseteq
                  (IF cell[f].state = "init" THEN {cell[f].value} ELSE {})

C2_Witness ==
    \E f \in Flags :
        /\ \A t \in Threads : seen[t][f] = {cell[f].value}
        /\ cell[f].state = "init"
        /\ read_bool_env_var(FlagEnvVar(f), FlagDefault(f)) # cell[f].value

----------------------------------------------------------------------------
(* Claims about the logging bootstrap                                      *)

IL_past_create == il_pc \in { "sink", "install", "done", "panicked" }

(* C3: initialize_logging never fails its caller: whatever the targets,    *)
(* the level, the state of the directories and the outcome of building a   *)
(* sink, it does not panic, and when it has finished it has installed a    *)
(* logger with every sink that could be set up.                            *)
C3_NeverFails ==
    /\ il_pc # "panicked"
    /\ il_pc = "done" =>
          /\ handle.installed
          /\ (S_stdout \in targets) = ("stdout" \in handle.appenders)
          /\ "file" \in handle.appenders => S_file \in targets

DefaultUnusable ==
    fs[get_default_log_dir] \in { "uncreatable", "readonly_dir", "file" }

(* C4: with the file target selected and an override path that is a        *)
(* regular file, the directory becomes the platform default; when the      *)
(* default cannot be created or written either, no file sink is built,     *)
(* the function still finishes, and stdout, when selected, is installed.   *)
C4_FileOverrideFallsBack ==
    LET ov == env[ELASTIC_APM_PROFILER_LOG_DIR_ENV_VAR] IN
    (/\ S_file \in targets
     /\ il_pc \in { "create", "fallback", "sink", "install", "done",
                    "panicked" }
     /\ ov.kind = "Ok"
     /\ fs[ov.val] = "file")
    => /\ log_dir = get_default_log_dir
       /\ DefaultUnusable =>
             /\ il_pc # "panicked"
             /\ sink_dir = << >>
             /\ "file" \notin appenders
             /\ il_pc = "done" =>
                   /\ "file" \notin handle.appenders
                   /\ S_stdout \in targets => "stdout" \in handle.appenders

(* C5: read_log_targets_from_env_var returns a non-empty subset of         *)
(* {file, stdout}: the recognized names, ignoring case, among the pieces   *)
(* of the value between ';', and {file} when there is none or the          *)
(* variable cannot be read.                                                *)
HasToken(v, lit) ==
    /\ v.kind = "Ok"
    /\ \E i \in 1..(Len(v.val) + 1) : \E j \in (i - 1)..Len(v.val) :
          /\ i = 1 \/ v.val[i - 1] = ";"
          /\ j = Len(v.val) \/ v.val[j + 1] = ";"
          /\ \A k \in i..j : v.val[k] # ";"
          /\ SameIgnoringCase(SubSeq(v.val, i, j), lit)

C5_LogTargets ==
    LET v == env[ELASTIC_APM_PROFILER_LOG_TARGETS_ENV_VAR]
        named == { lit \in {S_file, S_stdout} : HasToken(v, lit) }
    IN il_pc # "start" =>
          /\ targets # {}
          /\ targets \subseteq {S_file, S_stdout}
          /\ targets = (IF named = {} THEN {S_file} ELSE named)
          /\ v = Present(S_file \o << ";" >> \o S_stdout)
                => targets = {S_file, S_stdout}
          /\ v \in { Present(<< "b","o","g","u","s" >>), Present(<< >>),
                     NotPresent }
                => targets = {S_file}

C5_Witness ==
    /\ il_pc # "start"
    /\ env[ELASTIC_APM_PROFILER_LOG_TARGETS_ENV_VAR]
          = Present(S_stdout \o << ";",";","F","I","L","E" >>)
    /\ targets = {S_file, S_stdout}

(* C9: with the file target selected, a failed creation of the resolved    *)
(* directory is followed by exactly one creation attempt on the platform   *)
(* default, and only when the resolved path is not that default; when no   *)
(* directory could be created the path is marked invalid and no file sink  *)
(* is built, so a file sink only stands on an existing directory.          *)
C9_CreateFallback ==
    (S_file \in targets /\ IL_past_create) =>
        /\ Len(create_calls) <= 2
        /\ Len(create_calls) = 2 =>
              /\ create_calls[1] # get_default_log_dir
              /\ create_calls[2] = get_default_log_dir
        /\ (/\ create_calls # << >>
            /\ fs[create_calls[1]] = "uncreatable"
            /\ create_calls[1] # get_default_log_dir)
           => Len(create_calls) = 2
        /\ (/\ create_calls # << >>
            /\ fs[create_calls[Len(create_calls)]] = "uncreatable")
           => /\ ~valid_log_dir
              /\ sink_dir = << >>
              /\ il_pc # "panicked"
        /\ sink_dir # << >> => is_dir(sink_dir)

----------------------------------------------------------------------------
(* C8: each write that takes the active log file over 5 MiB rotates it     *)
(* into a new backup; at most 10 backups are kept, and a rotation with     *)
(* the window full drops the oldest one.                                   *)
C8_WindowInv ==
    /\ active_len <= SizeTrigger_limit
    /\ Len(backups) <= 10
    /\ Len(backups) = Min(rolls, 10)
    /\ \A i \in 1..Len(backups) : backups[i] = rolls + 1 - i

C8_Rotation ==
    /\ []C8_WindowInv
    /\ [][/\ (active_len + ret'.val > 5 * 1024 * 1024) = (rolls' = rolls + 1)
          /\ rolls' = rolls + 1 =>
                /\ backups'[1] = rolls + 1
                /\ active_len' = 0
                /\ dropped' = (IF Len(backups) = 10 THEN rolls - 9 ELSE 0)
                /\ dropped' # 0 =>
                      /\ \A i \in 1..Len(backups) : dropped' <= backups[i]
                      /\ \A i \in 1..Len(backups') : dropped' # backups'[i]
          /\ rolls' = rolls => active_len' = active_len + ret'.val]_vars

C8_Witness ==
    /\ Len(backups) = 10
    /\ dropped = 1
    /\ rolls = 11
    /\ active_len = 5 * 1024 * 1024

----------------------------------------------------------------------------
(* Claims about load_integrations                                          *)

IntegrationsVar == env[ELASTIC_APM_PROFILER_INTEGRATIONS]
LastCall == history[Len(history)]
CallStarts == li_pc = "idle" /\ (history' # history \/ li_pc' # "idle")

(* C6: a call of load_integrations made while                              *)
(* ELASTIC_APM_PROFILER_INTEGRATIONS is not set returns E_FAIL at once:    *)
(* no file is opened, and the open and parse steps are not reached.        *)
C6_MissingVariable ==
    /\ [](li_pc \in {"open", "parse"} => IntegrationsVar.kind = "Ok")
    /\ [][(CallStarts /\ IntegrationsVar.kind # "Ok") =>
             /\ li_pc' = "idle"
             /\ opened' = opened
             /\ Len(history') = Len(history) + 1
             /\ history'[Len(history')].steps = << "env" >>
             /\ ret'.op = "load_integrations"
             /\ ~ret'.ok
             /\ ret'.val = E_FAIL]_vars

C6_Witness ==
    /\ IntegrationsVar = NotPresent
    /\ files[PathA].exists
    /\ history # << >>
    /\ LastCall.steps = << "env" >>
    /\ ~LastCall.ok
    /\ LastCall.val = E_FAIL
    /\ opened = << >>
    /\ ret.op = "load_integrations"

(* C7: two calls with the variable and the file unchanged between them     *)
(* return the same result, and a successful call returns one record per    *)
(* item of the file as it is now, in file order, duplicates included.      *)
C7_Idempotent ==
    /\ \A i \in 1..Len(history) : \A j \in 1..Len(history) :
          history[i].epoch = history[j].epoch =>
              /\ history[i].ok = history[j].ok
              /\ history[i].val = history[j].val
    /\ \A i \in 1..Len(history) :
          (history[i].ok /\ history[i].epoch = mutations) =>
              LET c == files[IntegrationsVar.val].content IN
              /\ Len(history[i].val) = Len(c)
              /\ \A k \in 1..Len(c) : history[i].val[k].name = c[k][2]

C7_Witness ==
    /\ Len(history) = 2
    /\ history[1].ok /\ history[2].ok
    /\ history[1].epoch = history[2].epoch
    /\ history[1].epoch > 0
    /\ Len(history[2].val) = 3
    /\ history[2].val[1] = history[2].val[3]

(* what the three steps would do in the current environment                *)
EnvStepOk == IntegrationsVar.kind = "Ok"
OpenStepOk ==
    /\ EnvStepOk
    /\ IntegrationsVar.val \in DOMAIN files
    /\ files[IntegrationsVar.val].exists
ParseStepOk ==
    /\ OpenStepOk
    /\ \A k \in 1..Len(files[IntegrationsVar.val].content) :
          LET item == files[IntegrationsVar.val].content[k] IN
          Len(item) = 2 /\ item[1] = "name"

C10_Steps ==
    \A i \in 1..Len(history) :
        LET h == history[i] IN
        /\ h.steps \in { << "env" >>, << "env", "open" >>,
                         << "env", "open", "parse" >> }
        /\ h.ok => h.steps = << "env", "open", "parse" >>
        /\ ~h.ok => h.val = E_FAIL
        /\ h.epoch = mutations =>
              /\ h.ok = ParseStepOk
              /\ h.steps = (IF ~EnvStepOk THEN << "env" >>
                            ELSE IF ~OpenStepOk THEN << "env", "open" >>
                            ELSE << "env", "open", "parse" >>)

(* C10 as stated: load_integrations reads the variable, opens the file and *)
(* parses it in this order, stops at the first step that fails, returns    *)
(* E_FAIL whichever step failed and Ok exactly when all three succeeded,   *)
(* and no other operation returns an error value.                          *)
C10_OnlyLoadFails ==
    /\ C10_Steps
    /\ ~ret.ok => ret.op = "load_integrations"

(* C10, amended: as above, except that get_native_profiler_file also       *)
(* returns an error value, E_FAIL, on a build that is not for Windows when *)
(* no profiler path variable can be read.                                  *)
C10_LoadSteps ==
    /\ C10_Steps
    /\ ~ret.ok =>
          /\ ret.op \in { "load_integrations", "get_native_profiler_file" }
          /\ ret.val = E_FAIL
    /\ (ret.op = "get_native_profiler_file" /\ ~ret.ok) =>
          /\ target_os # "windows"
          /\ env[WidthVar("CORECLR")].kind # "Ok"
          /\ env["CORECLR_PROFILER_PATH"].kind # "Ok"

C10_Witness ==
    /\ Len(history) = 2
    /\ history[1].steps = << "env", "open" >> /\ ~history[1].ok
    /\ history[2].steps = << "env", "open", "parse" >> /\ ~history[2].ok
    /\ ret.op = "get_native_profiler_file"
    /\ ~ret.ok

====
